---- MODULE Spec2Model ----
(***************************************************************************)
(* The multi-host scan runner of nasl-interpreter (scanner/scan_runner.rs) *)
(* as a state machine: the ScanRunner iterator (next, sanitize_indeces,    *)
(* execute) and its precondition checker (check_key, check_keys).          *)
(*                                                                         *)
(* Spec      the runner serving a scan of several hosts over a scheduler   *)
(*           output, one action per next() call.                           *)
(* SpecKeys  check_keys as a function of a VT descriptor and a KB.         *)
(* SpecSched the dependency scheduler producing the stages of a scan.      *)
(***************************************************************************)
EXTENDS Integers, Sequences, FiniteSets, TLC

VARIABLES
    hosts,          \* scan.target.hosts
    plan,           \* what the scheduler yields over its life (never changes)
    schedule,       \* the scheduler iterator: the items not yet pulled
    missing_files,  \* the filenames the loader fails on
    kb,             \* the KB store: scope key -> kb key -> entry
    store_down,     \* how many scan_finished calls the store has failed
    concurrent_vts, \* ScanRunner.concurrent_vts
    current_host,   \* ScanRunner.current_host
    current_host_concurrent_vt_idx, \* ScanRunner.current_host_concurrent_vt_idx
    vt,             \* the VT descriptor last handed to execute / check_keys
    ret,            \* what the last call returned, and what it did
    finished,       \* the scope keys scan_finished was called with, in order
    results,        \* the Ok(ScriptResult) items yielded so far, in order
    calls,          \* number of next() calls made
    pulls,          \* number of next() calls made on the scheduler
    ends,           \* number of next() calls that returned None
    interpret,      \* what the script executor produced in the last call
    errs,           \* the causes of the Err items returned so far
    dependencies,   \* the scheduler's input: declared VT -> its dependencies
    stages,         \* the stages the scheduler has produced so far
    plan_status,    \* the scheduler: idle, run, done or err
    tokenizer,      \* Parser.tokenizer: the token categories not yet consumed
    parsed          \* what the last Parser::next returned

vars == <<hosts, plan, schedule, missing_files, kb, store_down, concurrent_vts,
          current_host, current_host_concurrent_vt_idx, vt, ret, finished,
          results, calls, pulls, ends, interpret, errs, dependencies, stages,
          plan_status, tokenizer, parsed>>

(***************************************************************************)
(* Bounds                                                                  *)
(***************************************************************************)
MaxHosts == 2
MaxStages == 2
MaxStageLen == 2
MaxNotifyFails == 1
MaxEndPolls == 1
MaxChecks == 3
MaxVts == 3
MaxTokens == 7

(***************************************************************************)
(* Data                                                                    *)
(***************************************************************************)
scan_id == "sid"

HostName(i) == <<"host", i>>

\* ContextKey::Scan(scan_id, Some(target))
ContextKeyScan(id, target) == <<id, target>>

NoKey == <<"", <<"", 0>>>>

\* One KB entry as retrieve sees it: nothing, a KB item with a value, a field
\* that is not a KB item, or a storage error.
EntryNone == [st |-> "none", v |-> 0]
EntryErr == [st |-> "err", v |-> 0]
EntryOther == [st |-> "other", v |-> 0]
EntryKB(v) == [st |-> "kb", v |-> v]

\* Primitive -> bool, as the tests use it: 1 is enabled, 0 is disabled.
ToBool(v) == v # 0

ProtocolDisplay(pt) == IF pt = "TCP" THEN "tcp" ELSE "udp"

generate_port_kb_key(protocol, port) ==
    "Ports/" \o ProtocolDisplay(protocol) \o "/" \o port

Keys == {"key/a", "key/b"}
TcpPorts == {"20", "22"}
UdpPorts == {"2000", "2002"}
PortKbKeys == {generate_port_kb_key("TCP", p) : p \in TcpPorts}
                \cup {generate_port_kb_key("UDP", p) : p \in UdpPorts}
KbKeys == Keys \cup PortKbKeys

\* ScriptResultKind
Kind(k, a, b, code) == [k |-> k, a |-> a, b |-> b, code |-> code]
ReturnCode(x) == Kind("ReturnCode", "", "", x)
RuntimeError == Kind("Error", "", "", 0)
MissingRequiredKey(k) == Kind("MissingRequiredKey", k, "", 0)
MissingMandatoryKey(k) == Kind("MissingMandatoryKey", k, "", 0)
ContainsExcludedKey(k) == Kind("ContainsExcludedKey", k, "", 0)
MissingPort(pt, port) == Kind("MissingPort", pt, port, 0)
Permit == Kind("Permit", "", "", 0)

Nvt(oid, rk, mk, ek, tp, up) ==
    [oid |-> oid, filename |-> <<oid, ".nasl">>,
     required_keys |-> rk, mandatory_keys |-> mk, excluded_keys |-> ek,
     required_ports |-> tp, required_udp_ports |-> up]

NoVt == Nvt(-1, <<>>, <<>>, <<>>, <<>>, <<>>)

(***************************************************************************)
(* check_key and check_keys                                                *)
(***************************************************************************)
\* storage.retrieve(key, Retrieve::KB(kb_key)), then the first item of it.
Retrieve(store, key, kb_key) ==
    IF key \in DOMAIN store /\ kb_key \in DOMAIN store[key]
    THEN store[key][kb_key]
    ELSE EntryNone

\* The values a KB item holds in the model.
KbValues == {0, 1}

\* The verdict of one check: Permit stands for None (Ok(())), anything else
\* for Some(kind) (Err(kind)). The closure result_some is a function of the
\* value found.
check_key(store, key, kb_key, result_none, result_some, result_err) ==
    LET x == Retrieve(store, key, kb_key)
    IN  CASE x.st = "kb" -> result_some[x.v]
          [] x.st = "other" -> result_none
          [] x.st = "none" -> result_none
          [] x.st = "err" -> result_err

\* check_required_key satisfied only by an entry whose value is truthy.
check_required_key_truthy_only(store, key, k) ==
    check_key(store, key, k, MissingRequiredKey(k),
              [v \in KbValues |-> IF ToBool(v) THEN Permit ELSE MissingRequiredKey(k)],
              MissingRequiredKey(k))

check_required_key(store, key, k) ==
    check_key(store, key, k, MissingRequiredKey(k), [v \in KbValues |-> Permit],
              MissingRequiredKey(k))

check_mandatory_key(store, key, k) ==
    check_key(store, key, k, MissingMandatoryKey(k), [v \in KbValues |-> Permit],
              MissingMandatoryKey(k))

\* check_exclude_key denying on a store error as well.
check_exclude_key_fail_closed(store, key, k) ==
    check_key(store, key, k, Permit, [v \in KbValues |-> ContainsExcludedKey(k)],
              ContainsExcludedKey(k))

\* check_exclude_key looking at the value of the entry.
check_exclude_key_truthy_only(store, key, k) ==
    check_key(store, key, k, Permit,
              [v \in KbValues |-> IF ToBool(v) THEN ContainsExcludedKey(k) ELSE Permit],
              Permit)

check_exclude_key(store, key, k) ==
    check_key(store, key, k, Permit, [v \in KbValues |-> ContainsExcludedKey(k)], Permit)

\* check_port satisfied by any entry, whatever its value.
check_port_presence_only(store, key, pt, port) ==
    check_key(store, key, generate_port_kb_key(pt, port),
              MissingPort(pt, port), [v \in KbValues |-> Permit], MissingPort(pt, port))

check_port(store, key, pt, port) ==
    check_key(store, key, generate_port_kb_key(pt, port),
              MissingPort(pt, port),
              [v \in KbValues |-> IF ToBool(v) THEN Permit ELSE MissingPort(pt, port)],
              MissingPort(pt, port))

\* One check by its class: the closure check_keys builds for it.
RunCheck(store, key, cls, pt, k) ==
    CASE cls = "required" -> check_required_key(store, key, k)
      [] cls = "mandatory" -> check_mandatory_key(store, key, k)
      [] cls = "excluded" -> check_exclude_key(store, key, k)
      [] cls = "port" -> check_port(store, key, pt, k)

\* The KB key a check retrieves.
CheckKbKey(cls, pt, k) ==
    IF cls = "port" THEN generate_port_kb_key(pt, k) ELSE k

\* generate_key naming the first host whatever host is served.
generate_key_first_host(hs, ch) == ContextKeyScan(scan_id, hs[1])

\* generate_key: the scope of the host at current_host.
generate_key(hs, ch) == ContextKeyScan(scan_id, hs[ch + 1])

\* The loops with the excluded keys checked first.
LoopsExcludedFirst(v) ==
    <<[cls |-> "excluded", pt |-> "", ks |-> v.excluded_keys],
      [cls |-> "required", pt |-> "", ks |-> v.required_keys],
      [cls |-> "mandatory", pt |-> "", ks |-> v.mandatory_keys],
      [cls |-> "port", pt |-> "TCP", ks |-> v.required_ports],
      [cls |-> "port", pt |-> "UDP", ks |-> v.required_udp_ports]>>

\* The five for-loops of check_keys in the order of the code: required keys,
\* mandatory keys, excluded keys, TCP ports, UDP ports.
Loops(v) ==
    <<[cls |-> "required", pt |-> "", ks |-> v.required_keys],
      [cls |-> "mandatory", pt |-> "", ks |-> v.mandatory_keys],
      [cls |-> "excluded", pt |-> "", ks |-> v.excluded_keys],
      [cls |-> "port", pt |-> "TCP", ks |-> v.required_ports],
      [cls |-> "port", pt |-> "UDP", ks |-> v.required_udp_ports]>>

\* The loops from the i-th name of the p-th on, each check with its `?`: the
\* first check that does not permit is returned and ends the walk. `reads`
\* are the (scope key, kb key) pairs retrieved so far.
RECURSIVE CheckLoop(_, _, _, _, _, _)
CheckLoop(store, key, loops, p, i, reads) ==
    IF p > Len(loops)
    THEN [kind |-> Permit, reads |-> reads]
    ELSE IF i > Len(loops[p].ks)
    THEN CheckLoop(store, key, loops, p + 1, 1, reads)
    ELSE LET l == loops[p]
             r == RunCheck(store, key, l.cls, l.pt, l.ks[i])
         IN  IF r # Permit
             THEN [kind |-> r,
                   reads |-> Append(reads, <<key, CheckKbKey(l.cls, l.pt, l.ks[i])>>)]
             ELSE CheckLoop(store, key, loops, p, i + 1,
                            Append(reads, <<key, CheckKbKey(l.cls, l.pt, l.ks[i])>>))

\* check_keys of the runner serving host current_host = ch.
check_keys(store, hs, ch, v) ==
    CheckLoop(store, generate_key(hs, ch), Loops(v), 1, 1, <<>>)

(***************************************************************************)
(* The scheduler's output and the scripts of a scan                        *)
(***************************************************************************)
\* The VT descriptor with identifier oid. The scans of the model take their
\* VTs from this list: a VT without preconditions, one requiring a key, one
\* excluding that key, one requiring a TCP and a UDP port.
Catalog(oid) ==
    CASE oid % 4 = 0 -> Nvt(oid, <<>>, <<>>, <<>>, <<>>, <<>>)
      [] oid % 4 = 1 -> Nvt(oid, <<"key/a">>, <<>>, <<>>, <<>>, <<>>)
      [] oid % 4 = 2 -> Nvt(oid, <<>>, <<>>, <<"key/a">>, <<>>, <<>>)
      [] oid % 4 = 3 -> Nvt(oid, <<>>, <<>>, <<>>, <<"20">>, <<"2000">>)

\* The VTs a scan variant treats specially: in variant "param" they carry a
\* runtime parameter, in variant "noload" their file cannot be loaded.
Marked(oid) == oid % 3 = 1

Variants == {"plain", "param", "noload"}

\* The shape of a scheduler output: per item, a stage of n VTs or an error.
ShapeItems == [ok : {TRUE}, n : 0..MaxStageLen] \cup [ok : {FALSE}, n : {0}]
PlanShapes == UNION {[1..n -> ShapeItems] : n \in 0..MaxStages}

RECURSIVE Offset(_, _)
Offset(shape, k) == IF k <= 1 THEN 0 ELSE Offset(shape, k - 1) + shape[k - 1].n

\* (Nvt, Option<Vec<Parameter>>): no parameters is the empty list.
VtEntry(oid, variant) ==
    [vt |-> Catalog(oid),
     param |-> IF variant = "param" /\ Marked(oid) THEN <<"p">> ELSE <<>>]

\* ConcurrentVTResult: Ok((stage, vts)) or Err(_).
MkPlan(shape, variant) ==
    [k \in 1..Len(shape) |->
        IF shape[k].ok
        THEN [ok |-> TRUE, stage |-> k,
              vts |-> [j \in 1..shape[k].n |->
                          VtEntry(Offset(shape, k) + j - 1, variant)]]
        ELSE [ok |-> FALSE, stage |-> 0, vts |-> <<>>]]

\* ConcurrentVT: what is cached of an Ok item.
ConcurrentVT(item) == [stage |-> item.stage, vts |-> item.vts]

KbEmpty == [k \in KbKeys |-> EntryNone]
KbRich ==
    [k \in KbKeys |->
        IF k \in {"key/a", "Ports/tcp/20", "Ports/udp/2000"}
        THEN EntryKB(1) ELSE EntryNone]

\* The KB at the start of a scan: empty, or filled for every other host.
RunnerKb(hs, rich) ==
    [key \in {ContextKeyScan(scan_id, hs[i]) : i \in 1..Len(hs)} |->
        IF rich /\ key[2][2] % 2 = 1 THEN KbRich ELSE KbEmpty]

\* What a script produces: values, exits and errors.
OutVal == [t |-> "val", code |-> 0]
OutExit(c) == [t |-> "exit", code |-> c]
OutErr == [t |-> "err", code |-> 0]
ScriptOutputs ==
    {<<>>, <<OutVal>>, <<OutExit(1)>>, <<OutVal, OutExit(0)>>,
     <<OutVal, OutErr>>, <<OutErr, OutExit(1)>>, <<OutExit(1), OutErr>>}

(***************************************************************************)
(* execute                                                                 *)
(***************************************************************************)
\* The outcome taken from the last error or exit produced, not the first.
RECURSIVE FindMapLast(_, _)
FindMapLast(output, i) ==
    IF i > Len(output) THEN ReturnCode(0)
    ELSE IF \E j \in (i + 1)..Len(output) : output[j].t \in {"exit", "err"}
    THEN FindMapLast(output, i + 1)
    ELSE CASE output[i].t = "exit" -> ReturnCode(output[i].code)
           [] output[i].t = "err" -> RuntimeError
           [] OTHER -> FindMapLast(output, i + 1)

\* interpret.find_map(..).unwrap_or_else(|| ReturnCode(0))
RECURSIVE FindMap(_, _)
FindMap(output, i) ==
    IF i > Len(output) THEN ReturnCode(0)
    ELSE CASE output[i].t = "exit" -> ReturnCode(output[i].code)
           [] output[i].t = "err" -> RuntimeError
           [] OTHER -> FindMap(output, i + 1)

NoKind == Kind("", "", "", 0)
NoTarget == <<"", 0>>

\* What a call returned and did. tag: init, none, err, result, panic.
Ret(tag, err, pos, v, stage, kind, target, reads, ctx, executed) ==
    [tag |-> tag, err |-> err, pos |-> pos, oid |-> v.oid,
     filename |-> v.filename, stage |-> stage, kind |-> kind,
     target |-> target, reads |-> reads, ctx_key |-> ctx[1],
     ctx_target |-> ctx[2], executed |-> executed]

NoCtx == <<NoKey, NoTarget>>
NoPos == <<0, 0, 0>>
RetTag(tag, err) ==
    Ret(tag, err, NoPos, NoVt, 0, NoKind, NoTarget, <<>>, NoCtx, FALSE)

\* The script run whatever check_keys returned.
ExecuteCheckedAlways(ck, key, target, pos, stage, v, output) ==
    Ret("result", "", pos, v, stage, FindMap(output, 1), target, ck.reads,
        <<key, target>>, TRUE)

\* The tail of execute, after the load and the parameters: ck is what
\* check_keys returned.
ExecuteChecked(ck, key, target, pos, stage, v, output) ==
    IF ck.kind # Permit
    THEN Ret("result", "", pos, v, stage, ck.kind, target, ck.reads, NoCtx, FALSE)
    ELSE Ret("result", "", pos, v, stage, FindMap(output, 1), target, ck.reads,
             <<key, target>>, TRUE)

\* execute taking the parameters as bound instead of rejecting them.
execute_binding_parameters(ch, hs, store, missing, pos, stage, v, param, output) ==
    IF v.filename \in missing
    THEN Ret("err", "load", pos, v, stage, NoKind, NoTarget, <<>>, NoCtx, FALSE)
    ELSE ExecuteChecked(check_keys(store, hs, ch, v), generate_key(hs, ch),
                        hs[ch + 1], pos, stage, v, output)

\* execute(stage, vt, param) of the runner serving host ch, at position pos.
execute(ch, hs, store, missing, pos, stage, v, param, output) ==
    IF v.filename \in missing
    THEN Ret("err", "load", pos, v, stage, NoKind, NoTarget, <<>>, NoCtx, FALSE)
    ELSE IF param # <<>>
    THEN Ret("err", "parameter", pos, v, stage, NoKind, NoTarget, <<>>, NoCtx,
             FALSE)
    ELSE ExecuteChecked(check_keys(store, hs, ch, v), generate_key(hs, ch),
                        hs[ch + 1], pos, stage, v, output)

(***************************************************************************)
(* sanitize_indeces and next                                               *)
(***************************************************************************)
\* The runner's own fields.
Self ==
    [schedule |-> schedule, concurrent_vts |-> concurrent_vts,
     current_host |-> current_host, idx |-> current_host_concurrent_vt_idx]

\* The scheduler consulted whatever host is served.
ConsultsSchedulerAlways(self) == TRUE

\* Whether sanitize_indeces consults the scheduler.
ConsultsScheduler(self) == self.current_host = 0

\* The scheduler pulled only while nothing is cached yet.
PullScheduleOnce(self) ==
    IF ConsultsScheduler(self) /\ self.schedule # <<>> /\ self.concurrent_vts = <<>>
    THEN [err |-> ~Head(self.schedule).ok,
          self |-> [self EXCEPT
                      !.schedule = Tail(@),
                      !.concurrent_vts =
                          IF Head(self.schedule).ok
                          THEN Append(@, ConcurrentVT(Head(self.schedule)))
                          ELSE @]]
    ELSE [err |-> FALSE, self |-> self]

\* self.schedule.next() while serving the first host: an Ok item is pushed to
\* the cache, an Err is returned (err), an exhausted scheduler changes nothing.
PullSchedule(self) ==
    IF ConsultsScheduler(self) /\ self.schedule # <<>>
    THEN [err |-> ~Head(self.schedule).ok,
          self |-> [self EXCEPT
                      !.schedule = Tail(@),
                      !.concurrent_vts =
                          IF Head(self.schedule).ok
                          THEN Append(@, ConcurrentVT(Head(self.schedule)))
                          ELSE @]]
    ELSE [err |-> FALSE, self |-> self]

\* new_host at the end of any stage, not only of the last one.
NewHostAtStageEnd(cv, si, vi) ==
    si >= Len(cv) \/ vi >= Len(cv[si + 1].vts)

\* new_host found one VT too late: vi may equal the length of the stage.
NewHostOffByOne(cv, si, vi) ==
    si >= Len(cv) \/ (vi > Len(cv[si + 1].vts) /\ si + 1 >= Len(cv))

\* new_host of sanitize_indeces, over the cache cv and the cursor (si, vi).
NewHost(cv, si, vi) ==
    si >= Len(cv) \/ (vi >= Len(cv[si + 1].vts) /\ si + 1 >= Len(cv))

\* A new stage entered at its second VT.
AdvanceSkipFirst(cv, si, vi, hi) ==
    IF NewHost(cv, si, vi) THEN <<hi + 1, 0, 0>>
    ELSE IF vi >= Len(cv[si + 1].vts) THEN <<hi, si + 1, 1>>
    ELSE <<hi, si, vi>>

\* A new host entered without resetting the stage index.
AdvanceKeepStage(cv, si, vi, hi) ==
    IF NewHost(cv, si, vi) THEN <<hi + 1, si, 0>>
    ELSE IF vi >= Len(cv[si + 1].vts) THEN <<hi, si + 1, 0>>
    ELSE <<hi, si, vi>>

\* The cursor and host index sanitize_indeces moves to.
Advance(cv, si, vi, hi) ==
    IF NewHost(cv, si, vi) THEN <<hi + 1, 0, 0>>
    ELSE IF vi >= Len(cv[si + 1].vts) THEN <<hi, si + 1, 0>>
    ELSE <<hi, si, vi>>

\* No notification for the host after which no host is left.
SanitizedSilentAtEnd(self, hs, notify_ok, new_host, to) ==
    IF new_host /\ ~notify_ok /\ to[1] < Len(hs)
    THEN [tag |-> "err", err |-> "notify", self |-> self,
          called |-> <<generate_key(hs, self.current_host)>>]
    ELSE [tag |-> IF to[1] < Len(hs) THEN "ok" ELSE "none",
          err |-> "",
          self |-> IF to[1] < Len(hs)
                   THEN [self EXCEPT !.current_host = to[1],
                                     !.idx = <<to[2], to[3]>>]
                   ELSE self,
          called |-> IF new_host /\ to[1] < Len(hs)
                     THEN <<generate_key(hs, self.current_host)>> ELSE <<>>]

\* sanitize_indeces after the scheduler was consulted without an error; to
\* is where Advance leads.
Sanitized(self, hs, notify_ok, new_host, to) ==
    IF new_host /\ ~notify_ok
    THEN [tag |-> "err", err |-> "notify", self |-> self,
          called |-> <<generate_key(hs, self.current_host)>>]
    ELSE [tag |-> IF to[1] < Len(hs) THEN "ok" ELSE "none",
          err |-> "",
          self |-> IF to[1] < Len(hs)
                   THEN [self EXCEPT !.current_host = to[1],
                                     !.idx = <<to[2], to[3]>>]
                   ELSE self,
          called |-> IF new_host
                     THEN <<generate_key(hs, self.current_host)>> ELSE <<>>]

\* An error of the scheduler passed over: the call goes on as if the
\* scheduler were exhausted.
SanitizePulledIgnoringError(p, hs, notify_ok) ==
    Sanitized(p.self, hs, notify_ok,
              NewHost(p.self.concurrent_vts, p.self.idx[1], p.self.idx[2]),
              Advance(p.self.concurrent_vts, p.self.idx[1], p.self.idx[2],
                      p.self.current_host))

\* sanitize_indeces once the scheduler was consulted: p is what the pull gave.
SanitizePulled(p, hs, notify_ok) ==
    IF p.err
    THEN [tag |-> "err", err |-> "schedule", self |-> p.self, called |-> <<>>]
    ELSE Sanitized(p.self, hs, notify_ok,
                   NewHost(p.self.concurrent_vts, p.self.idx[1], p.self.idx[2]),
                   Advance(p.self.concurrent_vts, p.self.idx[1], p.self.idx[2],
                           p.self.current_host))

\* sanitize_indeces: tag none (no hosts left), err, or ok, with the runner's
\* fields as it leaves them; `called` are the scan_finished calls it made.
sanitize_indeces(self, hs, notify_ok) ==
    SanitizePulled(PullSchedule(self), hs, notify_ok)

\* The rest of the stage given up when the VT r was returned for did not
\* return an exit code.
SkipStageOnFailure(self, cv, called, si, vi, r) ==
    [self |-> [self EXCEPT !.idx =
                  IF r.tag = "result" /\ r.kind.k # "ReturnCode"
                  THEN <<si, Len(cv[si + 1].vts)>> ELSE <<si, vi + 1>>],
     called |-> called,
     ret |-> r]

FetchSkipStageOnFailure(self, cv, called, si, vi, hs, store, missing, output) ==
    IF si >= Len(cv) \/ vi >= Len(cv[si + 1].vts)
    THEN [self |-> self, called |-> called,
          ret |-> Ret("panic", "", <<self.current_host, si, vi>>, NoVt, 0,
                      NoKind, NoTarget, <<>>, NoCtx, FALSE)]
    ELSE SkipStageOnFailure(self, cv, called, si, vi,
                            execute(self.current_host, hs, store, missing,
                                    <<self.current_host, si, vi>>, cv[si + 1].stage,
                                    cv[si + 1].vts[vi + 1].vt,
                                    cv[si + 1].vts[vi + 1].param, output))

\* next() once sanitize_indeces gave Ok((_, (si, vi))): fetch, move the
\* cursor, execute. cv is the cache.
Fetch(self, cv, called, si, vi, hs, store, missing, output) ==
    IF si >= Len(cv) \/ vi >= Len(cv[si + 1].vts)
    THEN \* index out of bounds: the call panics
         [self |-> self, called |-> called,
          ret |-> Ret("panic", "", <<self.current_host, si, vi>>, NoVt, 0,
                      NoKind, NoTarget, <<>>, NoCtx, FALSE)]
    ELSE [self |-> [self EXCEPT !.idx = <<si, vi + 1>>],
          called |-> called,
          ret |-> execute(self.current_host, hs, store, missing,
                          <<self.current_host, si, vi>>, cv[si + 1].stage,
                          cv[si + 1].vts[vi + 1].vt,
                          cv[si + 1].vts[vi + 1].param, output)]

NextSanitized(r, hs, store, missing, output) ==
    CASE r.tag = "none" ->
           [self |-> r.self, called |-> r.called, ret |-> RetTag("none", "")]
      [] r.tag = "err" ->
           [self |-> [r.self EXCEPT !.idx = <<@[1], @[2] + 1>>],
            called |-> r.called, ret |-> RetTag("err", r.err)]
      [] r.tag = "ok" ->
           Fetch(r.self, r.self.concurrent_vts, r.called, r.self.idx[1],
                 r.self.idx[2], hs, store, missing, output)

\* Iterator::next: the runner's fields after the call, what it returned, and
\* the scan_finished calls it made.
next(self, hs, store, missing, notify_ok, output) ==
    NextSanitized(sanitize_indeces(self, hs, notify_ok), hs, store, missing,
                  output)

\* ScriptResult as the caller sees it, without its outcome kind.
Emitted(r) == [target |-> r.target, stage |-> r.stage, oid |-> r.oid]

(***************************************************************************)
(* The statement parser over token categories                              *)
(***************************************************************************)
\* token::Category, as far as the parser tells categories apart: "If" and
\* "For" are Identifier(Some(keyword)), "Identifier" is Identifier(None).
Categories ==
    {"If", "For", "Identifier", "LeftParen", "RightParen", "Semicolon",
     "LeftCurlyBracket"}

Keywords == {"If", "For"}

NoStatement == [kind |-> "none"]

\* Result<Statement, TokenError>, with what the tokenizer still holds
Parsed(tag, stmt, reason, rest) ==
    [tag |-> tag, stmt |-> stmt, reason |-> reason, rest |-> rest]

NotParsed == Parsed("init", NoStatement, "", <<>>)

ParsedOk(stmt, rest) == Parsed("Ok", stmt, "", rest)

ParsedErr(reason, rest) == Parsed("Err", NoStatement, reason, rest)

\* operator_precedence_parser::expression(tokens): the statement it builds is
\* kept as the tokens it is handed
expression(tokens) == [kind |-> "Expression", tokens |-> tokens]

\* Statement::If(condition, body, None)
If(condition, body) ==
    [kind |-> "If", condition |-> condition, body |-> body, else |-> "None"]

\* The closure parse_expression_count hands over, with its captured count
CountClosure(increase_when, reduce_when, count) ==
    [kind |-> "count", increase_when |-> increase_when,
     reduce_when |-> reduce_when, count |-> count]

\* The closure parse_token hands over: |c| c == Category::Semicolon
SemicolonClosure == [kind |-> "semicolon"]

\* The captured count after the closure has seen category t
Counted(predicate, t) ==
    IF predicate.kind # "count" THEN predicate
    ELSE IF t = predicate.increase_when
    THEN [predicate EXCEPT !.count = predicate.count + 1]
    ELSE IF t = predicate.reduce_when
    THEN [predicate EXCEPT !.count = predicate.count - 1]
    ELSE predicate

\* What the closure answers for category t, given its state after seeing t
Answers(after, t) ==
    IF after.kind = "count" THEN after.count = 0 ELSE t = "Semicolon"

\* parse_expression, from the loop on: tokens is the vector built so far
\* (vec![token] at first), rest what the tokenizer still holds
RECURSIVE parse_expression(_, _, _)
parse_expression(tokens, rest, predicate) ==
    IF rest = <<>> THEN ParsedErr("missing_semicolon", <<>>)
    ELSE IF ~Answers(Counted(predicate, Head(rest)), Head(rest))
    THEN parse_expression(Append(tokens, Head(rest)), Tail(rest),
                          Counted(predicate, Head(rest)))
    ELSE ParsedOk(expression(tokens), Tail(rest))

parse_expression_count(rest, increase_when, reduce_when) ==
    IF rest = <<>> THEN ParsedErr("unexpected_end", <<>>)
    ELSE parse_expression(<<Head(rest)>>, Tail(rest),
                          CountClosure(increase_when, reduce_when, 1))

RECURSIVE parse_token(_, _)

\* parse_if once the body is parsed
IfOf(condition, body) ==
    IF body.tag # "Ok" THEN body
    ELSE ParsedOk(If(condition.stmt, body.stmt), body.rest)

\* parse_if once the condition is parsed
IfBody(condition) ==
    IF condition.tag # "Ok" THEN condition
    ELSE IF condition.rest = <<>> THEN ParsedErr("unexpected_end", <<>>)
    ELSE IF Head(condition.rest) = "LeftCurlyBracket"
    THEN Parsed("panic", NoStatement, "todo", Tail(condition.rest))
    ELSE IfOf(condition,
              parse_token(Head(condition.rest), Tail(condition.rest)))

parse_if(rest) ==
    IF rest = <<>> THEN ParsedErr("unexpected_end", <<>>)
    ELSE IF Head(rest) # "LeftParen"
    THEN ParsedErr("unexpected_token", Tail(rest))
    ELSE IfBody(parse_expression_count(Tail(rest), "LeftParen", "RightParen"))

parse_keyword(token, rest) ==
    IF token = "If" THEN parse_if(rest)
    ELSE ParsedErr("unexpected_token", rest)

parse_token(token, rest) ==
    IF token \in Keywords THEN parse_keyword(token, rest)
    ELSE parse_expression(<<token>>, rest, SemicolonClosure)

(***************************************************************************)
(* The runner over a scan                                                  *)
(***************************************************************************)
Init ==
    \E h \in 1..MaxHosts, shape \in PlanShapes, variant \in Variants,
       rich \in BOOLEAN :
        /\ hosts = [i \in 1..h |-> HostName(i)]
        /\ plan = MkPlan(shape, variant)
        /\ schedule = plan
        /\ missing_files =
              IF variant = "noload"
              THEN {Catalog(o).filename :
                      o \in {x \in 0..(MaxStages * MaxStageLen) : Marked(x)}}
              ELSE {}
        /\ kb = RunnerKb(hosts, rich)
        /\ store_down = 0
        /\ concurrent_vts = <<>>
        /\ current_host = 0
        /\ current_host_concurrent_vt_idx = <<0, 0>>
        /\ vt = NoVt
        /\ ret = RetTag("init", "")
        /\ finished = <<>>
        /\ results = <<>>
        /\ calls = 0
        /\ pulls = 0
        /\ ends = 0
        /\ interpret = <<>>
        /\ errs = {}
        /\ dependencies = <<>>
        /\ stages = <<>>
        /\ plan_status = "idle"
        /\ tokenizer = <<>>
        /\ parsed = NotParsed

\* One call of next() by the caller. A panicked runner is gone; the caller
\* polls at most MaxEndPolls times more after a None.
NextCall ==
    /\ ret.tag # "panic"
    /\ ends <= MaxEndPolls
    /\ \E notify_ok \in BOOLEAN, output \in ScriptOutputs :
        \E n \in {next(Self, hosts, kb, missing_files, notify_ok, output)} :
        \E failed \in {n.ret.tag = "err" /\ n.ret.err = "notify"} :
             /\ failed => store_down < MaxNotifyFails
             \* the store fails only a scan_finished call that is made, and
             \* the executor produces only when it is invoked
             /\ ~notify_ok => failed
             /\ ~n.ret.executed => output = <<>>
             /\ schedule' = n.self.schedule
             /\ concurrent_vts' = n.self.concurrent_vts
             /\ current_host' = n.self.current_host
             /\ current_host_concurrent_vt_idx' = n.self.idx
             /\ ret' = n.ret
             /\ vt' = IF n.ret.tag \in {"result", "err"} /\ n.ret.oid >= 0
                      THEN Catalog(n.ret.oid) ELSE vt
             /\ finished' = finished \o n.called
             /\ store_down' = IF failed THEN store_down + 1 ELSE store_down
             /\ results' = IF n.ret.tag = "result"
                           THEN Append(results, Emitted(n.ret)) ELSE results
             /\ calls' = calls + 1
             /\ pulls' = IF ConsultsScheduler(Self) THEN pulls + 1 ELSE pulls
             /\ ends' = IF n.ret.tag = "none" THEN ends + 1 ELSE ends
             /\ interpret' = IF n.ret.executed THEN output ELSE <<>>
             /\ errs' = IF n.ret.tag = "err" THEN errs \cup {n.ret.err} ELSE errs
             /\ UNCHANGED <<hosts, plan, missing_files, kb, dependencies, stages,
                            plan_status, tokenizer, parsed>>

Next == NextCall

Spec == Init /\ [][Next]_vars

(***************************************************************************)
(* check_keys over VT descriptors and KB contents                          *)
(***************************************************************************)
\* The lists of names a descriptor may declare: no name twice.
InjSeqs(S) ==
    UNION {{f \in [1..Cardinality(T) -> T] : \A i, j \in DOMAIN f : f[i] = f[j] => i = j}
             : T \in SUBSET S}

NumChecks(v) ==
    Len(v.required_keys) + Len(v.mandatory_keys) + Len(v.excluded_keys)
        + Len(v.required_ports) + Len(v.required_udp_ports)

\* The descriptors checked: at most MaxChecks preconditions in all.
VtInputs ==
    {v \in {Nvt(0, rk, mk, ek, tp, up) :
              rk \in InjSeqs(Keys), mk \in InjSeqs(Keys), ek \in InjSeqs(Keys),
              tp \in InjSeqs(TcpPorts), up \in InjSeqs(UdpPorts)} :
        NumChecks(v) <= MaxChecks}

Range(f) == {f[i] : i \in DOMAIN f}

\* The KB keys check_keys can retrieve for a descriptor.
Mentioned(v) ==
    Range(v.required_keys) \cup Range(v.mandatory_keys) \cup Range(v.excluded_keys)
        \cup {generate_port_kb_key("TCP", p) : p \in Range(v.required_ports)}
        \cup {generate_port_kb_key("UDP", p) : p \in Range(v.required_udp_ports)}

Entries == {EntryNone, EntryErr, EntryOther} \cup {EntryKB(v) : v \in KbValues}

\* The contents of one scope: any entry under each key the descriptor names.
ScopeInputs(v) ==
    {[k \in KbKeys |-> IF k \in Mentioned(v) THEN f[k] ELSE EntryNone] :
        f \in [Mentioned(v) -> Entries]}

InitKeys ==
    \E v \in VtInputs, ch \in {0, 1} :
    \E scope \in ScopeInputs(v) :
        /\ hosts = <<HostName(1), HostName(2)>>
        /\ current_host = ch
        /\ vt = v
        /\ kb = [key \in {ContextKeyScan(scan_id, hosts[i]) : i \in 1..2} |->
                    IF key = ContextKeyScan(scan_id, hosts[ch + 1])
                    THEN scope ELSE KbEmpty]
        /\ plan = <<>>
        /\ schedule = <<>>
        /\ missing_files = {}
        /\ store_down = 0
        /\ concurrent_vts = <<>>
        /\ current_host_concurrent_vt_idx = <<0, 0>>
        /\ ret = RetTag("init", "")
        /\ finished = <<>>
        /\ results = <<>>
        /\ calls = 0
        /\ pulls = 0
        /\ ends = 0
        /\ interpret = <<>>
        /\ errs = {}
        /\ dependencies = <<>>
        /\ stages = <<>>
        /\ plan_status = "idle"
        /\ tokenizer = <<>>
        /\ parsed = NotParsed

\* self.check_keys(&vt)
CheckKeysCall ==
    /\ ret.tag = "init"
    /\ \E ck \in {check_keys(kb, hosts, current_host, vt)} :
         ret' = Ret("checked", "", NoPos, vt, 0, ck.kind, NoTarget, ck.reads,
                    NoCtx, FALSE)
    /\ UNCHANGED <<hosts, plan, schedule, missing_files, kb, store_down,
                   concurrent_vts, current_host, current_host_concurrent_vt_idx,
                   vt, finished, results, calls, pulls, ends, interpret, errs,
                   dependencies, stages, plan_status, tokenizer, parsed>>

NextKeys == CheckKeysCall

SpecKeys == InitKeys /\ [][NextKeys]_vars

(***************************************************************************)
(* The dependency scheduler: layered topological ordering                  *)
(***************************************************************************)
VtIds == 0..(MaxVts - 1)

\* The scans scheduled: n declared VTs, each with the identifiers it depends
\* on; a dependency may name a VT that is not declared.
DependencyInputs ==
    UNION {{d \in [0..(n - 1) -> SUBSET VtIds] : \A v \in 0..(n - 1) : v \notin d[v]}
             : n \in 0..MaxVts}

\* The VTs of the stages produced so far.
Scheduled(st) == UNION {Range(st[i]) : i \in 1..Len(st)}

\* Every VT with resolvable dependencies taken at once, whatever is scheduled.
ReadyIgnoringOrder(deps, st) ==
    {v \in DOMAIN deps \ Scheduled(st) : deps[v] \subseteq DOMAIN deps}

\* VTs taken again although they are scheduled already.
ReadyAgain(deps, st) ==
    {v \in DOMAIN deps : deps[v] \subseteq Scheduled(st)
                            /\ (v \in Scheduled(st) => Len(st) < 2)}

\* One VT per stage: the least of those whose dependencies are scheduled.
ReadyOneAtATime(deps, st) ==
    {v \in DOMAIN deps \ Scheduled(st) :
        /\ deps[v] \subseteq Scheduled(st)
        /\ \A w \in DOMAIN deps \ Scheduled(st) :
              deps[w] \subseteq Scheduled(st) => v <= w}

\* A dependency that names no declared VT taken as satisfied.
ReadyUnresolvedIgnored(deps, st) ==
    {v \in DOMAIN deps \ Scheduled(st) :
        deps[v] \cap DOMAIN deps \subseteq Scheduled(st)}

\* The not-yet-scheduled VTs whose dependencies are all already scheduled.
Ready(deps, st) ==
    {v \in DOMAIN deps \ Scheduled(st) : deps[v] \subseteq Scheduled(st)}

\* The orders a stage may list its VTs in: the tie-break is unspecified.
Orders(S) ==
    {f \in [1..Cardinality(S) -> S] : \A i, j \in DOMAIN f : f[i] = f[j] => i = j}

InitSched ==
    \E d \in DependencyInputs :
        /\ dependencies = d
        /\ stages = <<>>
        /\ plan_status = "run"
        /\ hosts = <<>>
        /\ plan = <<>>
        /\ schedule = <<>>
        /\ missing_files = {}
        /\ kb = <<>>
        /\ store_down = 0
        /\ concurrent_vts = <<>>
        /\ current_host = 0
        /\ current_host_concurrent_vt_idx = <<0, 0>>
        /\ vt = NoVt
        /\ ret = RetTag("init", "")
        /\ finished = <<>>
        /\ results = <<>>
        /\ calls = 0
        /\ pulls = 0
        /\ ends = 0
        /\ interpret = <<>>
        /\ errs = {}
        /\ tokenizer = <<>>
        /\ parsed = NotParsed

\* One pull on the scheduler: the ready VTs become the next stage; it stops
\* when no VT remains, and fails when VTs remain and none is ready (a cycle
\* or a dependency that does not resolve).
NextStage ==
    /\ plan_status = "run"
    /\ \E ready \in {Ready(dependencies, stages)} :
         IF DOMAIN dependencies \subseteq Scheduled(stages)
         THEN plan_status' = "done" /\ stages' = stages
         ELSE IF ready = {}
         THEN plan_status' = "err" /\ stages' = stages
         ELSE /\ plan_status' = "run"
              /\ \E s \in Orders(ready) : stages' = Append(stages, s)
    /\ UNCHANGED <<hosts, plan, schedule, missing_files, kb, store_down,
                   concurrent_vts, current_host, current_host_concurrent_vt_idx,
                   vt, ret, finished, results, calls, pulls, ends, interpret,
                   errs, dependencies, tokenizer, parsed>>

NextSched == NextStage

SpecSched == InitSched /\ [][NextSched]_vars

\* The scheduler pulled until it ends: a caller that keeps asking for stages.
SpecSchedFair == SpecSched /\ WF_vars(NextSched)

(***************************************************************************)
(* The parser over token inputs                                            *)
(***************************************************************************)
TokenSeqs(n) == UNION {[1..k -> Categories] : k \in 0..n}

\* parse(code): the inputs are the `if` keyword followed by up to MaxTokens
\* tokens of any category
InitParse ==
    \E s \in TokenSeqs(MaxTokens) :
        /\ tokenizer = <<"If">> \o s
        /\ parsed = NotParsed
        /\ dependencies = <<>>
        /\ stages = <<>>
        /\ plan_status = "idle"
        /\ hosts = <<>>
        /\ plan = <<>>
        /\ schedule = <<>>
        /\ missing_files = {}
        /\ kb = <<>>
        /\ store_down = 0
        /\ concurrent_vts = <<>>
        /\ current_host = 0
        /\ current_host_concurrent_vt_idx = <<0, 0>>
        /\ vt = NoVt
        /\ ret = RetTag("init", "")
        /\ finished = <<>>
        /\ results = <<>>
        /\ calls = 0
        /\ pulls = 0
        /\ ends = 0
        /\ interpret = <<>>
        /\ errs = {}

\* Parser::next: one statement off the tokenizer. A panicked parser is gone,
\* and nothing is asked of an exhausted one.
ParserNext ==
    /\ parsed.tag # "panic"
    /\ tokenizer # <<>>
    /\ parsed' = parse_token(Head(tokenizer), Tail(tokenizer))
    /\ tokenizer' = parsed'.rest
    /\ UNCHANGED <<hosts, plan, schedule, missing_files, kb, store_down,
                   concurrent_vts, current_host, current_host_concurrent_vt_idx,
                   vt, ret, finished, results, calls, pulls, ends, interpret,
                   errs, dependencies, stages, plan_status>>

NextParse == ParserNext

SpecParse == InitParse /\ [][NextParse]_vars

(***************************************************************************)
(* Properties of the runner (Spec)                                         *)
(***************************************************************************)
H == Len(hosts)

\* The (stage tag, VT identifier) pairs of a scheduler output, in its order.
RECURSIVE Flat(_, _)
Flat(pl, k) ==
    IF k > Len(pl) THEN <<>>
    ELSE [j \in 1..Len(pl[k].vts) |->
             [stage |-> pl[k].stage, oid |-> pl[k].vts[j].vt.oid]]
         \o Flat(pl, k + 1)

N == Len(Flat(plan, 1))

\* A scan whose scheduler yields non-empty stages and no error, none of whose
\* VTs carries parameters and all of whose files load.
CleanScan ==
    /\ Len(plan) >= 1
    /\ \A k \in 1..Len(plan) :
         /\ plan[k].ok
         /\ Len(plan[k].vts) >= 1
         /\ \A j \in 1..Len(plan[k].vts) :
              /\ plan[k].vts[j].param = <<>>
              /\ plan[k].vts[j].vt.filename \notin missing_files

\* A run in which nothing has failed.
CleanRun == CleanScan /\ store_down = 0

Min(a, b) == IF a <= b THEN a ELSE b

IsPrefix(a, b) == Len(a) <= Len(b) /\ \A i \in 1..Len(a) : a[i] = b[i]

KeyOfHost(i) == <<"sid", hosts[i]>>

\* C1: in a run without any error over non-empty stages covering N >= 1 VTs,
\* the first H*N calls of next() each yield an Ok(ScriptResult) and every
\* later call returns None: exactly H*N results, then end-of-sequence.
C1_ResultCount ==
    CleanRun =>
        /\ Len(results) = Min(calls, H * N)
        /\ (calls \in 1..(H * N) => ret.tag = "result")
        /\ (calls > H * N => ret.tag = "none")

C1_Witness ==
    /\ CleanRun /\ H = 2 /\ Len(plan) = 2 /\ N >= 3
    /\ ret.tag = "none" /\ Len(results) = 2 * N

\* The i-th result of an error-free run: hosts in target order, for each host
\* the stages in plan order, in each stage the VTs in list order.
ExpectedResult(i) ==
    [target |-> hosts[((i - 1) \div N) + 1],
     stage |-> Flat(plan, 1)[((i - 1) % N) + 1].stage,
     oid |-> Flat(plan, 1)[((i - 1) % N) + 1].oid]

\* C2: in an error-free run the results are emitted host-major, stage-minor,
\* VT-minor: the i-th result is that of the i-th (host, stage, VT) position
\* in the order hosts, then stages of the plan, then VTs of the stage.
C2_EmissionOrder ==
    CleanRun =>
        \A i \in 1..Len(results) :
            i <= H * N /\ results[i] = ExpectedResult(i)

C2_Witness ==
    /\ CleanRun /\ H = 2 /\ Len(plan) = 2 /\ N >= 3
    /\ ret.tag = "result" /\ Len(results) = 2 * N
    /\ results[N].target # results[N + 1].target
    /\ results[1].stage # results[N].stage

\* The (stage tag, VT identifier) pairs executed so far for the i-th host.
PerHost(i) ==
    LET own == SelectSeq(results, LAMBDA r : r.target = hosts[i])
    IN  [j \in 1..Len(own) |-> <<own[j].stage, own[j].oid>>]

\* C3: in an error-free run every host is served the sequence of (stage, VT)
\* pairs the first host was served: what a host has executed so far is a
\* prefix of the first host's sequence, and all of it once the host is done.
C3_IdenticalReplay ==
    CleanRun =>
        \A i \in 1..H :
            /\ IsPrefix(PerHost(i), PerHost(1))
            /\ (i - 1 < current_host \/ ret.tag = "none") => PerHost(i) = PerHost(1)

C3_Witness ==
    /\ CleanRun /\ H = 2 /\ Len(plan) = 2 /\ ret.tag = "none"
    /\ Len(PerHost(1)) >= 3 /\ PerHost(2) = PerHost(1)

\* C4: a next() call made while current_host >= 1 does not pull the scheduler
\* and leaves the cached plan as it is; every call leaves the cached stages
\* in place and at most appends to them.
C4_SchedulerFirstHostOnly ==
    [][/\ current_host >= 1 =>
            /\ pulls' = pulls
            /\ schedule' = schedule
            /\ concurrent_vts' = concurrent_vts
       /\ IsPrefix(concurrent_vts, concurrent_vts')]_vars

\* A call made while the second host was being served: it fetched from the
\* second cached stage.
C4_Witness ==
    /\ current_host = 1 /\ ret.tag = "result" /\ ret.pos = <<1, 1, 0>>
    /\ Len(concurrent_vts) = 2 /\ pulls >= 2

\* C5: scan_finished is called exactly H times over the life of the runner,
\* the i-th call with the scope key of the i-th host: never more than H calls,
\* never another host's key, and all H calls made once the runner is done.
C5_NotifiedOncePerHost ==
    store_down = 0 =>
        /\ Len(finished) <= H
        /\ \A i \in 1..Min(Len(finished), H) : finished[i] = KeyOfHost(i)
        /\ (ret.tag \in {"none", "panic"} => Len(finished) = H)

\* C6: for every VT execution the scope key of every precondition read, the
\* scope key and target of the execution context and the target of the result
\* all name the host at the current host index when the VT was fetched.
C6_ScopeConsistency ==
    ret.tag = "result" =>
        /\ ret.pos[1] = current_host
        /\ ret.target = hosts[ret.pos[1] + 1]
        /\ \A i \in 1..Len(ret.reads) : ret.reads[i][1] = KeyOfHost(ret.pos[1] + 1)
        /\ ret.executed =>
              /\ ret.ctx_key = KeyOfHost(ret.pos[1] + 1)
              /\ ret.ctx_target = hosts[ret.pos[1] + 1]

C6_Witness ==
    /\ ret.tag = "result" /\ current_host = 1 /\ ret.executed
    /\ ret.reads # <<>> /\ ret.ctx_key = KeyOfHost(2)

(***************************************************************************)
(* Properties of check_keys (SpecKeys)                                     *)
(***************************************************************************)
\* The entry under a KB key in the scope of the host being served.
CurEntry(k) == kb[KeyOfHost(current_host + 1)][k]

Present(k) == CurEntry(k).st = "kb"

PortName(pt, p) == IF pt = "TCP" THEN "Ports/tcp/" \o p ELSE "Ports/udp/" \o p

PortOpen(pt, p) ==
    CurEntry(PortName(pt, p)).st = "kb" /\ CurEntry(PortName(pt, p)).v = 1

\* The preconditions of a descriptor in the order they are to be evaluated.
Declared(v) ==
    [i \in 1..Len(v.required_keys) |-> <<"required", "", v.required_keys[i]>>]
    \o [i \in 1..Len(v.mandatory_keys) |-> <<"mandatory", "", v.mandatory_keys[i]>>]
    \o [i \in 1..Len(v.excluded_keys) |-> <<"excluded", "", v.excluded_keys[i]>>]
    \o [i \in 1..Len(v.required_ports) |-> <<"port", "TCP", v.required_ports[i]>>]
    \o [i \in 1..Len(v.required_udp_ports) |-> <<"port", "UDP", v.required_udp_ports[i]>>]

Failing(c) ==
    CASE c[1] \in {"required", "mandatory"} -> ~Present(c[3])
      [] c[1] = "excluded" -> Present(c[3])
      [] c[1] = "port" -> ~PortOpen(c[2], c[3])

Denial(c) ==
    CASE c[1] = "required" -> MissingRequiredKey(c[3])
      [] c[1] = "mandatory" -> MissingMandatoryKey(c[3])
      [] c[1] = "excluded" -> ContainsExcludedKey(c[3])
      [] c[1] = "port" -> MissingPort(c[2], c[3])

NameOf(c) == IF c[1] = "port" THEN PortName(c[2], c[3]) ELSE c[3]

FailingAt(v) == {i \in 1..Len(Declared(v)) : Failing(Declared(v)[i])}

FirstFailing(v) == CHOOSE i \in FailingAt(v) : \A j \in FailingAt(v) : i <= j

\* C7: check_keys returns permit or the denial of the first failing condition
\* in the order required keys, mandatory keys, excluded keys, TCP ports, UDP
\* ports (each list in its order), and retrieves nothing after that condition.
C7_FirstFailureWins ==
    ret.tag = "checked" =>
        IF FailingAt(vt) = {}
        THEN /\ ret.kind = Permit
             /\ Len(ret.reads) = Len(Declared(vt))
             /\ \A i \in 1..Len(ret.reads) :
                    ret.reads[i][2] = NameOf(Declared(vt)[i])
        ELSE /\ ret.kind = Denial(Declared(vt)[FirstFailing(vt)])
             /\ Len(ret.reads) = FirstFailing(vt)
             /\ \A i \in 1..Len(ret.reads) :
                    ret.reads[i][2] = NameOf(Declared(vt)[i])

\* A missing required key wins over a present excluded key.
C7_Witness ==
    /\ ret.tag = "checked"
    /\ vt.required_keys = <<"key/a">> /\ vt.excluded_keys = <<"key/b">>
    /\ ~Present("key/a") /\ Present("key/b")
    /\ ret.kind = MissingRequiredKey("key/a") /\ Len(ret.reads) = 1

\* C8: a store error on retrieval denies for a required key, a mandatory key
\* and a required port (the check of that name is the last one made and its
\* denial is returned), and passes for an excluded key (it is not what the
\* call returns: evaluation went on).
C8_StoreErrorAsymmetry ==
    ret.tag = "checked" =>
        \A i \in 1..Len(ret.reads) :
            CurEntry(ret.reads[i][2]).st = "err" =>
                IF Declared(vt)[i][1] = "excluded"
                THEN i < Len(ret.reads) \/ ret.kind = Permit
                ELSE i = Len(ret.reads) /\ ret.kind = Denial(Declared(vt)[i])

\* An excluded key whose retrieval errs is passed, a port whose retrieval
\* errs denies.
C8_Witness ==
    /\ ret.tag = "checked"
    /\ vt.excluded_keys = <<"key/a">> /\ vt.required_ports = <<"20">>
    /\ CurEntry("key/a").st = "err" /\ CurEntry("Ports/tcp/20").st = "err"
    /\ Len(ret.reads) = 2 /\ ret.kind = MissingPort("TCP", "20")

KeyChecksPass(v) ==
    /\ \A i \in 1..Len(v.required_keys) : Present(v.required_keys[i])
    /\ \A i \in 1..Len(v.mandatory_keys) : Present(v.mandatory_keys[i])
    /\ \A i \in 1..Len(v.excluded_keys) : ~Present(v.excluded_keys[i])

RequiredPorts(v) ==
    {<<"TCP", v.required_ports[i]>> : i \in 1..Len(v.required_ports)}
        \cup {<<"UDP", v.required_udp_ports[i]>> : i \in 1..Len(v.required_udp_ports)}

\* C9: a VT whose key checks pass is permitted if and only if every required
\* TCP and UDP port has an entry Ports/tcp/p (Ports/udp/q) in the host's scope
\* whose value coerces to true; otherwise it is denied with missing-port for a
\* required protocol and port that has no such entry.
C9_RequiredPorts ==
    (ret.tag = "checked" /\ KeyChecksPass(vt)) =>
        /\ ret.kind = Permit <=> \A pp \in RequiredPorts(vt) : PortOpen(pp[1], pp[2])
        /\ ret.kind # Permit =>
              \E pp \in RequiredPorts(vt) :
                  ~PortOpen(pp[1], pp[2]) /\ ret.kind = MissingPort(pp[1], pp[2])

\* One port enabled, the other stored as disabled.
C9_Witness ==
    /\ ret.tag = "checked" /\ NumChecks(vt) = 2
    /\ vt.required_ports = <<"20">> /\ vt.required_udp_ports = <<"2000">>
    /\ CurEntry("Ports/tcp/20") = EntryKB(1)
    /\ CurEntry("Ports/udp/2000") = EntryKB(0)
    /\ ret.kind = MissingPort("UDP", "2000")

RequiredMandatoryPass(v) ==
    /\ \A i \in 1..Len(v.required_keys) : Present(v.required_keys[i])
    /\ \A i \in 1..Len(v.mandatory_keys) : Present(v.mandatory_keys[i])

\* C10: given that the required and mandatory checks pass, a VT is denied
\* with contains-excluded-key(name) if and only if some excluded key has a KB
\* entry in the host's scope, whatever its value, name being such a key.
C10_ExcludedKeys ==
    (ret.tag = "checked" /\ RequiredMandatoryPass(vt)) =>
        /\ ret.kind.k = "ContainsExcludedKey"
              <=> \E i \in 1..Len(vt.excluded_keys) : Present(vt.excluded_keys[i])
        /\ ret.kind.k = "ContainsExcludedKey" =>
              \E i \in 1..Len(vt.excluded_keys) :
                  /\ Present(vt.excluded_keys[i])
                  /\ ret.kind = ContainsExcludedKey(vt.excluded_keys[i])

\* An excluded key present with a falsy value still denies.
C10_Witness ==
    /\ ret.tag = "checked"
    /\ vt.excluded_keys = <<"key/b", "key/a">>
    /\ ~Present("key/b") /\ CurEntry("key/a") = EntryKB(0)
    /\ ret.kind = ContainsExcludedKey("key/a")

AllPresent(ks) == \A i \in 1..Len(ks) : Present(ks[i])

\* C11: a required key passes exactly when retrieving it in the host's scope
\* yields a KB entry, of any value: check_keys denies with missing-required-key
\* exactly when some required key has no KB entry, naming such a key; with all
\* required keys present it denies with missing-mandatory-key exactly when some
\* mandatory key has no KB entry, naming such a key.
C11_PresenceOnly ==
    ret.tag = "checked" =>
        /\ ret.kind.k = "MissingRequiredKey" <=> ~AllPresent(vt.required_keys)
        /\ ret.kind.k = "MissingRequiredKey" =>
              \E i \in 1..Len(vt.required_keys) :
                  /\ ~Present(vt.required_keys[i])
                  /\ ret.kind = MissingRequiredKey(vt.required_keys[i])
        /\ AllPresent(vt.required_keys) =>
              /\ ret.kind.k = "MissingMandatoryKey" <=> ~AllPresent(vt.mandatory_keys)
              /\ ret.kind.k = "MissingMandatoryKey" =>
                    \E i \in 1..Len(vt.mandatory_keys) :
                        /\ ~Present(vt.mandatory_keys[i])
                        /\ ret.kind = MissingMandatoryKey(vt.mandatory_keys[i])

\* A required key stored with the value 0 passes; the absent mandatory key
\* is what denies.
C11_Witness ==
    /\ ret.tag = "checked"
    /\ vt.required_keys = <<"key/a">> /\ vt.mandatory_keys = <<"key/b">>
    /\ CurEntry("key/a") = EntryKB(0) /\ CurEntry("key/b") = EntryNone
    /\ ret.kind = MissingMandatoryKey("key/b")

(***************************************************************************)
(* Properties of execute and of the failure policy (Spec)                  *)
(***************************************************************************)
\* C12: whenever a precondition of the VT fails in the scope of the host it
\* is run for, the script executor is not invoked for that (host, VT) and no
\* execution context (with its KB dispatcher) is built, the outcome kind of the
\* emitted result is exactly the denial of the first failing precondition,
\* and the KB holds what it held when the scan began.
C12_DenialShortCircuits ==
    (ret.tag = "result" /\ FailingAt(vt) # {}) =>
        /\ ~ret.executed
        /\ interpret = <<>>
        /\ ret.ctx_key = NoKey
        /\ ret.kind = Denial(Declared(vt)[FirstFailing(vt)])
        /\ kb \in {RunnerKb(hosts, rich) : rich \in BOOLEAN}

\* A VT denied for the second host for a port that is not open there.
C12_Witness ==
    /\ ret.tag = "result" /\ current_host = 1
    /\ vt.required_ports = <<"20">>
    /\ ret.kind = MissingPort("TCP", "20") /\ ~ret.executed

\* The items of the executor's output that are an error or an explicit exit.
Decisive == {i \in 1..Len(interpret) : interpret[i].t \in {"exit", "err"}}

FirstDecisive == CHOOSE i \in Decisive : \A j \in Decisive : i <= j

\* C13: when the VT is permitted the outcome kind is decided by the first
\* item of the executor's output that is a runtime error or an explicit exit:
\* an error gives runtime-error, an exit with code c gives
\* returned-exit-code(c), whatever precedes or follows it; an output without
\* error and exit gives returned-exit-code(0).
C13_OutcomeFromOutput ==
    (ret.tag = "result" /\ ret.executed) =>
        IF Decisive = {}
        THEN ret.kind = ReturnCode(0)
        ELSE IF interpret[FirstDecisive].t = "err"
        THEN ret.kind = RuntimeError
        ELSE ret.kind = ReturnCode(interpret[FirstDecisive].code)

\* An exit with code 1 followed by an error: the exit decides.
C13_Witness ==
    /\ ret.tag = "result" /\ ret.executed
    /\ interpret = <<OutExit(1), OutErr>> /\ ret.kind = ReturnCode(1)

\* The last call fetched a VT (at ret.pos) and handed it to execute.
Fetched == ret.tag \in {"result", "err"} /\ ret.oid >= 0

\* The (VT, parameters) entry the last call fetched.
FetchedEntry == concurrent_vts[ret.pos[2] + 1].vts[ret.pos[3] + 1]

\* A scan whose scheduler yields non-empty stages and no error and all of
\* whose files load, in a run whose notifications all succeeded.
LoadableRun ==
    /\ Len(plan) >= 1 /\ store_down = 0
    /\ \A k \in 1..Len(plan) :
         /\ plan[k].ok /\ Len(plan[k].vts) >= 1
         /\ \A j \in 1..Len(plan[k].vts) :
              plan[k].vts[j].vt.filename \notin missing_files

SequencingErrors == {"schedule", "load", "notify"}

\* C15: once next() has returned an error caused by a scheduling failure, a
\* load failure or a failed scan_finished notification, no later next() call
\* yields a Script Result.
C15_FailuresStopSequence ==
    ret.tag = "result" => errs \cap SequencingErrors = {}

\* What another run may differ in: its KB filled where this run's KB is
\* empty and empty where it is filled, with a script that fails; or every key
\* stored with the value 0, with a script that produces nothing.
AltRuns ==
    {[store |-> RunnerKb(hosts, kb # RunnerKb(hosts, TRUE)),
      output |-> <<OutVal, OutErr>>],
     [store |-> [key \in DOMAIN kb |-> [k \in KbKeys |-> EntryKB(0)]],
      output |-> <<>>]}

\* C16: what a next() call does to the runner's host index, cursor, cached
\* plan and scheduler, the position it visits, the VT, stage and target it
\* reports, whether it yields a result, an error or the end, and the
\* notifications it sends are the same in a run with other KB contents and
\* another executor output (the store answering scan_finished alike): a
\* denial or runtime error changes only the outcome kind of that VT.
C16_LocalFailuresKeepSequencing ==
    [][\A alt \in AltRuns :
         \E n \in {next(Self, hosts, alt.store, missing_files,
                         ~(ret'.tag = "err" /\ ret'.err = "notify"), alt.output)} :
             /\ n.self.current_host = current_host'
             /\ n.self.idx = current_host_concurrent_vt_idx'
             /\ n.self.concurrent_vts = concurrent_vts'
             /\ n.self.schedule = schedule'
             /\ finished \o n.called = finished'
             /\ n.ret.tag = ret'.tag /\ n.ret.err = ret'.err
             /\ n.ret.pos = ret'.pos /\ n.ret.oid = ret'.oid
             /\ n.ret.stage = ret'.stage /\ n.ret.target = ret'.target]_vars

\* A VT permitted for the first host is denied for the second, whose KB is
\* empty, and the cursor has moved past it all the same.
C16_Witness ==
    /\ kb = RunnerKb(hosts, TRUE) /\ LoadableRun
    /\ ret.tag = "result" /\ ret.kind = MissingRequiredKey("key/a")
    /\ ret.pos = <<1, 0, 1>> /\ current_host_concurrent_vt_idx = <<0, 2>>
    /\ Len(results) >= 4

\* The call about to be made pulls a scheduling error from the scheduler.
PullsError ==
    current_host = 0 /\ schedule # <<>> /\ ~Head(schedule).ok

\* C17: the next() call that pulls a scheduling error from the scheduler is
\* the one that returns it, and only such a call returns one; that call sends
\* no scan_finished notification, fetches and executes no VT, yields no
\* result, and leaves current_host and the cached plan as they were.
C17_SchedulingErrorSurfaced ==
    [][/\ PullsError <=> (ret'.tag = "err" /\ ret'.err = "schedule")
       /\ (ret'.tag = "err" /\ ret'.err = "schedule") =>
             /\ schedule' = Tail(schedule)
             /\ finished' = finished
             /\ results' = results
             /\ ret'.oid = NoVt.oid /\ ~ret'.executed
             /\ current_host' = current_host
             /\ concurrent_vts' = concurrent_vts]_vars

\* A scheduling error returned after a stage was cached and a result
\* yielded for the first host.
C17_Witness ==
    /\ ret.tag = "err" /\ ret.err = "schedule"
    /\ current_host = 0 /\ Len(concurrent_vts) = 1 /\ Len(results) >= 1
    /\ finished = <<>>

(***************************************************************************)
(* Properties of the scheduler (SpecSched)                                 *)
(***************************************************************************)
\* Every dependency names a declared VT.
Resolvable == \A v \in DOMAIN dependencies : dependencies[v] \subseteq DOMAIN dependencies

\* What is reached from the VTs S along at most n dependency steps.
RECURSIVE Closure(_, _)
Closure(S, n) ==
    IF n = 0 THEN S
    ELSE Closure(S \cup UNION {dependencies[v] : v \in S \cap DOMAIN dependencies},
                 n - 1)

\* The direct and transitive dependencies of a VT.
TransDeps(v) == Closure(dependencies[v], Cardinality(DOMAIN dependencies))

Acyclic == \A v \in DOMAIN dependencies : v \notin TransDeps(v)

\* How often a VT occurs in the stages produced.
Occurrences(v) ==
    Cardinality({ij \in (1..Len(stages)) \X (1..MaxVts + 1) :
                    ij[2] <= Len(stages[ij[1]]) /\ stages[ij[1]][ij[2]] = v})

\* The index (from 0) of the stage a scheduled VT is in.
StageOf(v) == (CHOOSE i \in 1..Len(stages) : v \in Range(stages[i])) - 1

\* C18: for a scan whose dependency graph is acyclic and resolves, the
\* scheduler does not fail, no VT ever occurs twice in the stages produced,
\* within a stage or across stages, only declared VTs occur, and once the
\* scheduler is exhausted every declared VT occurs exactly once.
C18_PlanCoverage ==
    (plan_status # "idle" /\ Acyclic /\ Resolvable) =>
        /\ plan_status # "err"
        /\ Scheduled(stages) \subseteq DOMAIN dependencies
        /\ \A v \in Scheduled(stages) : Occurrences(v) = 1
        /\ plan_status = "done" =>
              \A v \in DOMAIN dependencies : Occurrences(v) = 1

\* Three VTs, two of them depending on the third, scheduled in two stages.
C18_Witness ==
    /\ plan_status = "done" /\ Acyclic /\ Resolvable
    /\ Cardinality(DOMAIN dependencies) = 3 /\ Len(stages) = 2
    /\ Len(stages[2]) = 2

\* C19: for every scheduled VT A and every B it depends on, B is scheduled
\* in a stage of strictly smaller index; so no VT of a stage depends,
\* directly or transitively, on a VT of the same stage.
C19_DependencyOrder ==
    plan_status # "idle" =>
        /\ \A a \in Scheduled(stages) : \A b \in dependencies[a] :
              b \in Scheduled(stages) /\ StageOf(b) < StageOf(a)
        /\ \A i \in 1..Len(stages) : \A a, b \in Range(stages[i]) :
              b \notin TransDeps(a)

\* A chain of three VTs scheduled in three stages, dependencies first.
C19_Witness ==
    /\ plan_status = "done" /\ Len(stages) = 3
    /\ dependencies[0] = {1} /\ dependencies[1] = {2}
    /\ stages = <<<<2>>, <<1>>, <<0>>>>

Max(S) == CHOOSE x \in S : \A y \in S : y <= x

\* The length of the longest dependency chain below a VT.
RECURSIVE Depth(_)
Depth(v) ==
    IF dependencies[v] = {} THEN 0
    ELSE 1 + Max({Depth(d) : d \in dependencies[v]})

\* C20: for an acyclic, resolvable graph every scheduled VT is in the stage
\* whose index is the length of its longest dependency chain (0 without
\* dependencies), the earliest stage all its dependencies precede; the
\* assignment of VTs to stages is thus a function of the input alone,
\* whatever order the scheduler lists the VTs of a stage in.
C20_EarliestPlacement ==
    (plan_status # "idle" /\ Acyclic /\ Resolvable) =>
        /\ \A v \in Scheduled(stages) : StageOf(v) = Depth(v)
        /\ \A v \in DOMAIN dependencies \ Scheduled(stages) :
              Depth(v) >= Len(stages)

\* A VT depending on a root and on a VT that depends on that root: it is
\* placed after its longest chain, in the third stage.
C20_Witness ==
    /\ plan_status = "done" /\ Cardinality(DOMAIN dependencies) = 3
    /\ dependencies[2] = {0, 1} /\ dependencies[1] = {0} /\ dependencies[0] = {}
    /\ StageOf(2) = 2 /\ StageOf(1) = 1 /\ StageOf(0) = 0

\* Some dependency does not resolve, or the graph has a cycle.
Unsatisfiable == plan_status # "idle" /\ (~Resolvable \/ ~Acyclic)

\* The VTs of the stages before the i-th.
Before(i) == UNION {Range(stages[j]) : j \in 1..(i - 1)}

\* C21: when a dependency does not resolve to a declared VT or the graph has
\* a cycle, the scheduler never ends normally and never emits a stage holding
\* a VT one of whose dependencies is not in an earlier stage, and, pulled
\* until it ends, it ends with a scheduling error: it does not loop forever.
C21_UnsatisfiableFails ==
    /\ [](Unsatisfiable =>
            /\ plan_status # "done"
            /\ \A i \in 1..Len(stages) : \A v \in Range(stages[i]) :
                  dependencies[v] \subseteq Before(i))
    /\ (Unsatisfiable ~> plan_status = "err")

\* A cycle of two VTs beside a VT without dependencies: one stage is
\* emitted, then the scheduler fails.
C21_Witness ==
    /\ plan_status = "err" /\ Resolvable /\ ~Acyclic
    /\ Cardinality(DOMAIN dependencies) = 3 /\ Len(stages) = 1

(***************************************************************************)
(* Properties of the runner's host changes and of its end (Spec)           *)
(***************************************************************************)
\* C22: in an error-free run, up to the first end-of-sequence the hosts
\* notified as finished are exactly those before the host of the last result
\* emitted, each with its own scope key: the notification for host h is not
\* sent while results of host h are still to come and has been sent when the
\* first result of host h+1 is emitted; when end-of-sequence is returned all
\* H hosts have been notified, in host order; and the first VT of each host
\* is fetched at cursor (0,0).
C22_NotificationOrdering ==
    CleanRun =>
        /\ \A i \in 1..Min(Len(finished), H) : finished[i] = KeyOfHost(i)
        /\ (ends = 0 /\ results = <<>>) => finished = <<>>
        /\ (ends = 0 /\ results # <<>>) =>
              Len(finished) = (Len(results) - 1) \div N
        /\ ret.tag = "none" => Len(finished) >= H
        /\ (ret.tag = "result" /\ (Len(results) - 1) % N = 0) =>
              ret.pos = <<(Len(results) - 1) \div N, 0, 0>>

\* The first result of the second host: the first host was notified in the
\* call that yielded it, after its own last result.
C22_Witness ==
    /\ CleanRun /\ H = 2 /\ N >= 2
    /\ ret.tag = "result" /\ Len(results) = N + 1
    /\ finished = <<KeyOfHost(1)>> /\ ret.pos = <<1, 0, 0>>

\* The scheduler yields at least one stage, and no stage without a VT.
StagesNonEmpty ==
    /\ \E k \in 1..Len(plan) : plan[k].ok
    /\ \A k \in 1..Len(plan) : plan[k].ok => Len(plan[k].vts) >= 1

\* C23: when the scheduler yields non-empty stages, with or without
\* scheduling errors among them that the caller passes over, and whatever
\* else fails, no next() call indexes outside the cached plan or the host
\* list: every fetch is at a position (si, vi) with si below the number of
\* cached stages and vi below the number of VTs of that stage, for a host
\* index below H.
C23_CursorInBounds ==
    StagesNonEmpty =>
        /\ ret.tag # "panic"
        /\ current_host < H
        /\ Fetched =>
              /\ ret.pos[1] < H
              /\ ret.pos[2] < Len(concurrent_vts)
              /\ ret.pos[3] < Len(concurrent_vts[ret.pos[2] + 1].vts)

\* A scheduling error passed over, then the second host served from the
\* one cached stage.
C23_Witness ==
    /\ StagesNonEmpty /\ "schedule" \in errs
    /\ ret.tag = "result" /\ current_host = 1
    /\ ret.pos[3] = Len(concurrent_vts[ret.pos[2] + 1].vts) - 1

\* The scheduler yields no error and no stage without a VT.
StagesOnly ==
    \A k \in 1..Len(plan) : plan[k].ok /\ Len(plan[k].vts) >= 1

\* C24: for a plan of non-empty stages without a scheduling error, whenever
\* the runner has declared the first host finished (a scan_finished call was
\* made, or current_host has left 0) the scheduler has no stage left and the
\* cache holds every stage the scheduler produces, in its order.
C24_PlanCompleteBeforeHostEnds ==
    (StagesOnly /\ (finished # <<>> \/ current_host >= 1)) =>
        /\ schedule = <<>>
        /\ concurrent_vts = [k \in 1..Len(plan) |-> ConcurrentVT(plan[k])]

\* The first host has just been declared finished, by a scan_finished call
\* that failed, after a plan of two stages was pulled one stage per call.
C24_Witness ==
    /\ StagesOnly /\ Len(plan) = 2 /\ Len(plan[1].vts) = 1
    /\ current_host = 0 /\ Len(finished) = 1
    /\ ret.tag = "err" /\ ret.err = "notify"
    /\ Len(concurrent_vts) = 2

\* The last call returned the error of a failed scan_finished.
NotifyFailed == ret.tag = "err" /\ ret.err = "notify"

\* C25: a next() call in which scan_finished fails returns the error, has
\* called scan_finished once with the key of the host being served and leaves
\* current_host as it was; the call after it calls scan_finished again with
\* the key of that same host and, when that succeeds, goes on at host h+1
\* from cursor (0,0), or returns None when h was the last host; and in a run
\* in which nothing else fails the results are those of an error-free run:
\* every VT of every host exactly once, in order.
C25_NotificationRetried ==
    [][/\ NotifyFailed' =>
             /\ current_host' = current_host
             /\ finished' = Append(finished, KeyOfHost(current_host + 1))
             /\ results' = results
       /\ NotifyFailed =>
             /\ finished' = Append(finished, KeyOfHost(current_host + 1))
             /\ ~NotifyFailed' =>
                   IF current_host + 1 < H
                   THEN /\ current_host' = current_host + 1
                        /\ ret'.pos = <<current_host + 1, 0, 0>>
                   ELSE ret'.tag = "none" /\ current_host' = current_host
       /\ CleanScan =>
             /\ Len(results') <= H * N
             /\ \A i \in 1..Len(results') : results'[i] = ExpectedResult(i)
             /\ ret'.tag = "none" => Len(results') = H * N]_vars

\* C26: once next() has returned None, every further call returns None,
\* leaves current_host, the cursor and the cached plan unchanged, and calls
\* neither the KB store (no further scan_finished) nor the scheduler.
C26_EndIsStable ==
    [][ret.tag = "none" =>
          /\ ret'.tag = "none"
          /\ current_host' = current_host
          /\ current_host_concurrent_vt_idx' = current_host_concurrent_vt_idx
          /\ concurrent_vts' = concurrent_vts
          /\ finished' = finished
          /\ pulls' = pulls]_vars

\* C27: when the scheduler yields nothing at all, the runner faults in no
\* call and yields no result, and when it returns None for the first time it
\* has called scan_finished once for each host, in host order.
C27_EmptyPlan ==
    Len(plan) = 0 =>
        /\ ret.tag # "panic"
        /\ results = <<>>
        /\ (ret.tag = "none" /\ ends = 1 /\ store_down = 0) =>
              finished = [i \in 1..H |-> KeyOfHost(i)]

\* A scan whose scheduler yields no error, at least one stage without a VT,
\* no VT with parameters and only files that load.
EmptyStageScan ==
    /\ \E k \in 1..Len(plan) : Len(plan[k].vts) = 0
    /\ \A k \in 1..Len(plan) :
         /\ plan[k].ok
         /\ \A j \in 1..Len(plan[k].vts) :
              /\ plan[k].vts[j].param = <<>>
              /\ plan[k].vts[j].vt.filename \notin missing_files

\* C28: when a stage of the plan holds no VT, the runner faults in no call,
\* yields results only for the VTs of the other stages, each host's in plan
\* order, and by the time it first returns None it has yielded exactly one
\* result for every such VT for every host.
C28_EmptyStageSkipped ==
    (EmptyStageScan /\ store_down = 0) =>
        /\ ret.tag # "panic"
        /\ Len(results) <= H * N
        /\ \A i \in 1..Min(Len(results), H * N) : results[i] = ExpectedResult(i)
        /\ (ret.tag = "none" /\ ends = 1) => Len(results) = H * N

(***************************************************************************)
(* Properties of the parser (SpecParse)                                    *)
(***************************************************************************)
\* The nesting depth after the tokens s, counted over LeftParen/RightParen
RECURSIVE Nesting(_)
Nesting(s) ==
    IF s = <<>> THEN 0
    ELSE Nesting(Tail(s)) + (IF Head(s) = "LeftParen" THEN 1
                             ELSE IF Head(s) = "RightParen" THEN -1 ELSE 0)

\* code[i] is the right parenthesis that balances the left one at code[2]
Balances(code, i) ==
    /\ code[i] = "RightParen"
    /\ Nesting(SubSeq(code, 3, i)) = -1
    /\ \A k \in 3..(i - 1) : Nesting(SubSeq(code, 3, k)) >= 0

\* code is `if ( <cond> ) <stmt> ;` and more: the condition ends before i, the
\* statement, which is no keyword statement and no block, before its
\* semicolon at j
IfInput(code, i, j) ==
    /\ i >= 4
    /\ j >= i + 2
    /\ code[1] = "If"
    /\ code[2] = "LeftParen"
    /\ Balances(code, i)
    /\ code[j] = "Semicolon"
    /\ \A k \in (i + 1)..(j - 1) : code[k] # "Semicolon"
    /\ code[i + 1] \notin Keywords \cup {"LeftCurlyBracket"}

\* C29: on `if ( <cond> ) <stmt> ;` Parser::next yields If(condition, body,
\* None), the condition being the tokens between the opening parenthesis and
\* the right parenthesis that balances it, whatever the nesting, and the body
\* the tokens up to the semicolon; an `if` not followed by a left parenthesis
\* yields an unexpected-token error.
C29_IfConditionDelimited ==
    [][/\ \A i, j \in 1..Len(tokenizer) :
            IfInput(tokenizer, i, j) =>
                parsed' = ParsedOk(If(expression(SubSeq(tokenizer, 3, i - 1)),
                                      expression(SubSeq(tokenizer, i + 1, j - 1))),
                                   SubSeq(tokenizer, j + 1, Len(tokenizer)))
       /\ (/\ Len(tokenizer) >= 2
           /\ tokenizer[1] = "If"
           /\ tokenizer[2] # "LeftParen")
          => parsed'.tag = "Err" /\ parsed'.reason = "unexpected_token"]_vars

====
